---- MODULE Spec2Model ----
(***************************************************************************)
(* A model of the wemux message bus: the handler registries, the command   *)
(* and event dispatchers with their middleware hooks, the event stream and *)
(* the handle/emit cycle that drains it.                                   *)
(*                                                                         *)
(* The bus is single threaded.  One top-level call (handle or emit) runs   *)
(* at a time; pc is the position of that call inside the dispatcher and    *)
(* the drain loop.  Handlers, listeners and middleware hooks are user      *)
(* code: handlers and listeners are drawn from small pools of the test     *)
(* doubles of tests/unit/fakes.py, and a middleware hook either returns or *)
(* raises at each invocation.                                              *)
(***************************************************************************)
EXTENDS Integers, Sequences, FiniteSets, TLC

None == "None"

\* ---------------------------------------------------------------- bounds
\* Total number of add_listener calls made during set-up.
MaxListeners == 2
\* Number of top-level handle/emit calls made on the bus.
MaxCalls == 2
\* Length of the middleware list of the command dispatcher.
NumCommandMiddlewares == 2
\* Length of the middleware list of the event dispatcher.
NumEventMiddlewares == 1
\* Number of push_event and next calls made on a stream used on its own.
MaxStreamOps == 6
\* Number of register_handler decorations made during set-up.
MaxRegistrations == 2
\* Number of chain, next, handle and error calls made on chain nodes.
MaxChainOps == 3
\* Depth of nested calls at which the interpreter gives up (a chain that
\* runs in a circle forwards without end).
MaxDepth == 4

\* ------------------------------------------------------------ messages
\* Runtime types of commands and the data a caller puts in a command.
CommandTypes == {"CmdA", "CmdB"}
Data == {None, "test"}

\* Event instances and their runtime types.
Events == {"e1", "e2", "e3"}
EventTypes == {"EvA", "EvB"}
TypeOf(e) == IF e = "e2" THEN "EvB" ELSE "EvA"

\* A fresh command as the caller constructs it (FakeCommand defaults).
FakeCommand(t, d) == [type |-> t, data |-> d, is_handled |-> FALSE]

\* FakeEvent.is_handled, a property of the event's counter.
is_handled(cnt, e) == cnt[e] > 0

\* ------------------------------------------------------------ handlers
\* Command handlers: FakeCommandHandler(), FakeCommandHandler(events=[e1,
\* e2]), FakeCommandHandler(err=...) and a handler that raises only after
\* it has marked the command and pushed its event.
CommandHandlers == {"hPlain", "hPush", "hErr", "hLate"}
HandlerEvents(h) ==
    CASE h = "hPush" -> <<"e1", "e2">>
      [] h = "hLate" -> <<"e3">>
      [] OTHER -> <<>>
RaisesFirst(h) == h \in {"hErr", "lErr"}
RaisesLast(h) == h = "hLate"

\* Event listeners: FakeEventHandler(), FakeEventHandler(events=[e3]) and
\* FakeEventHandler(err=...).
Listeners == {"lPlain", "lPush", "lErr"}
ListenerEvents(l) == IF l = "lPush" THEN <<"e3">> ELSE <<>>

\* Chain nodes: instances of Handler.
Nodes == {"a", "b", "c"}

\* Exceptions, by origin.
HandlerNotFoundError == "HandlerNotFoundError"
HandlerError == "HandlerError"
ListenerError == "ListenerError"
HookError(hook) == "HookError_" \o hook

VARIABLES
    command_handlers,   \* MessageBus._command_handlers: type -> handler
    event_listeners,    \* MessageBus._event_listeners: type -> list
    events,             \* EventStream._events, the pending queue
    counter,            \* FakeEvent.counter of every event instance
    command,            \* the command of the running handle call
    pc,                 \* position of the running call
    op,                 \* "handle" or "emit": the running top-level call
    handler,            \* _handler looked up by the command dispatcher
    result,             \* result of handler.handle(command)
    ex,                 \* the exception caught by an except clause
    event,              \* the event the drain loop is dispatching
    li,                 \* index of the listener in the dispatch loop
    outcome,            \* how the top-level call ended
    log,                \* invocations made during the running call
    calls,              \* number of top-level calls started
    stale,              \* the pending queue when the running call started
    counter0,           \* the counters when the running call started
    emitted,            \* the event passed to the running emit call
    last_registered,    \* history: last add_handler argument per type
    registered,         \* history: add_listener arguments per type, in order
    overwritten,        \* history: some add_handler replaced a handler
    origin,             \* history: per pending event, "failed" when the
                        \* command handler that pushed it then raised
    _next,              \* Handler._next of every chain node
    _prev,              \* Handler._prev of every chain node
    external            \* events an external read source has on offer

vars == <<command_handlers, event_listeners, events, counter, command, pc, op,
          handler, result, ex, event, li, outcome, log, calls, stale,
          counter0, emitted, last_registered, registered, overwritten,
          origin, _next, _prev, external>>

ChainVars == <<_next, _prev>>

\* Log entries: k the operation, i a middleware or listener index, h a
\* handler or listener, m the message, x an exception or returned value
\* (for a "next" entry, the origin mark of the event taken from the queue).
Entry(k, i, h, m, x) == [k |-> k, i |-> i, h |-> h, m |-> m, x |-> x]

NoOutcome == [kind |-> "none", val |-> None]
Returned(v) == [kind |-> "returned", val |-> v]
Raised(e) == [kind |-> "raised", val |-> e]
NoCommand == [type |-> None, data |-> None, is_handled |-> FALSE]

Init ==
    /\ command_handlers = [t \in CommandTypes |-> None]
    /\ event_listeners = [t \in EventTypes |-> <<>>]
    /\ events = <<>>
    /\ counter = [e \in Events |-> 0]
    /\ command = NoCommand
    /\ pc = "idle"
    /\ op = None
    /\ handler = None
    /\ result = None
    /\ ex = None
    /\ event = None
    /\ li = 0
    /\ outcome = NoOutcome
    /\ log = <<>>
    /\ calls = 0
    /\ stale = <<>>
    /\ counter0 = [e \in Events |-> 0]
    /\ emitted = None
    /\ last_registered = [t \in CommandTypes |-> None]
    /\ registered = [t \in EventTypes |-> <<>>]
    /\ overwritten = FALSE
    /\ origin = <<>>
    /\ _next = [n \in Nodes |-> None]
    /\ _prev = [n \in Nodes |-> None]
    /\ external = <<>>

\* ---------------------------------------------------------- registries
\* Mutant of add_handler: an existing handler is kept (setdefault).
add_handler_keep(map, key, h) ==
    IF map[key] = None THEN [map EXCEPT ![key] = h] ELSE map

\* MessageBus.add_handler: self._command_handlers[key] = handler
add_handler(map, key, h) == [map EXCEPT ![key] = h]

\* Mutant of add_listener: the listener is put in front of the list.
add_listener_front(map, key, l) == [map EXCEPT ![key] = <<l>> \o @]

\* Mutant of add_listener: the list is replaced instead of appended to.
add_listener_replace(map, key, l) == [map EXCEPT ![key] = <<l>>]

\* MessageBus.add_listener: self._event_listeners[key].append(listener)
add_listener(map, key, l) == [map EXCEPT ![key] = Append(@, l)]

RECURSIVE SumLen(_, _)
SumLen(map, keys) ==
    IF keys = {} THEN 0
    ELSE LET k == CHOOSE x \in keys : TRUE
         IN Len(map[k]) + SumLen(map, keys \ {k})

RunVars == <<events, counter, command, pc, op, handler, result, ex, event, li,
             outcome, log, calls, stale, counter0, emitted,
             origin, ChainVars, external>>

\* Set-up: register a command handler for a command type.
RegisterCommandHandler ==
    /\ pc = "idle" /\ calls = 0
    /\ \E t \in CommandTypes, h \in CommandHandlers :
        /\ command_handlers' = add_handler(command_handlers, t, h)
        /\ last_registered' = [last_registered EXCEPT ![t] = h]
        /\ overwritten' = (overwritten \/ last_registered[t] \notin {None, h})
    /\ UNCHANGED <<event_listeners, registered, RunVars>>

\* Set-up: register an event listener for an event type.
RegisterEventHandler ==
    /\ pc = "idle" /\ calls = 0
    /\ SumLen(registered, EventTypes) < MaxListeners
    /\ \E t \in EventTypes, l \in Listeners :
        /\ event_listeners' = add_listener(event_listeners, t, l)
        /\ registered' = [registered EXCEPT ![t] = Append(@, l)]
    /\ UNCHANGED <<command_handlers, last_registered, overwritten, RunVars>>

Registries == <<command_handlers, event_listeners, last_registered,
                registered, overwritten>>

\* ------------------------------------------------------- event stream
\* Mutant of read_events: an event is handed over again at every read.
read_events_again == <<"e1">>

\* InMemoryEventStream._read_events: nothing is read from outside.
read_events == <<>>

\* Mutant of push_event: the event is inserted at the front.
push_event_front(q, e) == <<e>> \o q

\* Mutant of push_event: the event jumps the queue, behind its front.
push_event_second(q, e) ==
    IF q = <<>> THEN <<e>> ELSE <<Head(q), e>> \o Tail(q)

\* Mutant of push_event: the event is written out but not appended.
push_event_lost(q, e) == q

\* EventStream.push_event: _write_event(event); self._events.append(event)
push_event(q, e) == Append(q, e)

RECURSIVE push_events(_, _)
push_events(q, es) ==
    IF es = <<>> THEN q ELSE push_events(push_event(q, Head(es)), Tail(es))

\* Mutant of StopIteration: the iteration stops with one event pending.
StopIteration_early(q) == Len(q) <= 1

\* EventStream.__next__ raises StopIteration on an empty queue ...
StopIteration(q) == q = <<>>

\* Mutant of next_event: the back of the queue is returned.
next_event_back(q) == q[Len(q)]

\* ... and otherwise appends what _read_events returns and pops the front:
\* the event returned by self._events.pop(0) ...
next_event(q) == Head(q \o read_events)

\* Mutant of next_rest: the returned event stays in the queue.
next_rest_keep(q) == q

\* ... and the queue pop(0) leaves behind.
next_rest(q) == Tail(q \o read_events)

\* ---------------------------------------------------------- middleware
\* Mutant of Hooks: the middleware list is walked from its end.
Hooks_reversed(k, n, r, m, x) ==
    [j \in 1..(IF r = 0 THEN n ELSE r) |->
        Entry(k, (IF r = 0 THEN n ELSE r) + 1 - j, None, m, x)]

\* The entries of one loop over the middleware list: hooks 1..n were
\* invoked when r = 0 (all returned), hooks 1..r when hook r raised.
Hooks(k, n, r, m, x) ==
    [j \in 1..(IF r = 0 THEN n ELSE r) |-> Entry(k, j, None, m, x)]

\* -------------------------------------------------- command dispatcher
\* MessageBus.handle(command): the caller passes a fresh command.
Handle ==
    /\ pc \in {"idle", "done"} /\ calls < MaxCalls
    /\ \E t \in CommandTypes, d \in Data : command' = FakeCommand(t, d)
    /\ op' = "handle" /\ pc' = "c_lookup" /\ calls' = calls + 1
    /\ log' = <<>> /\ outcome' = NoOutcome /\ stale' = events /\ counter0' = counter
    /\ handler' = None /\ result' = None /\ ex' = None
    /\ event' = None /\ li' = 0 /\ emitted' = None
    /\ UNCHANGED <<Registries, events, counter, origin, ChainVars, external>>

\* Mutant of lookup: a default handler answers for an unregistered type.
lookup_default(map, cmd) ==
    IF map[cmd.type] # None THEN map[cmd.type] ELSE "hPlain"

\* Mutant of lookup: any registered handler answers, whatever the type.
lookup_any(map, cmd) ==
    IF map[cmd.type] # None THEN map[cmd.type]
    ELSE IF \E t \in DOMAIN map : map[t] # None
         THEN map[CHOOSE t \in DOMAIN map : map[t] # None]
         ELSE None

\* command_handlers.get(type(command))
lookup(map, cmd) == map[cmd.type]

\* _handler = command_handlers.get(type(command)); raise if it is None.
CommandLookup ==
    /\ pc = "c_lookup"
    /\ IF lookup(command_handlers, command) = None
       THEN /\ outcome' = Raised(HandlerNotFoundError)
            /\ pc' = "done"
            /\ UNCHANGED handler
       ELSE /\ handler' = lookup(command_handlers, command)
            /\ pc' = "c_before"
            /\ UNCHANGED outcome
    /\ UNCHANGED <<Registries, events, counter, command, op, result, ex,
                   event, li, log, calls, stale, counter0, emitted,
                   origin, ChainVars, external>>

\* for _middleware in self._middlewares: _middleware.before(command)
CommandBefore ==
    /\ pc = "c_before"
    /\ \E r \in 0..NumCommandMiddlewares :
        /\ log' = log \o Hooks("before", NumCommandMiddlewares, r, "command", None)
        /\ IF r = 0
           THEN pc' = "c_handle" /\ UNCHANGED ex
           ELSE pc' = "c_error" /\ ex' = HookError("before")
    /\ UNCHANGED <<Registries, events, counter, command, op, handler, result,
                   event, li, outcome, calls, stale, counter0, emitted,
                   origin, ChainVars, external>>

\* The origin marks of the pushes a handler makes.
Origins(es, mark) == [j \in 1..Len(es) |-> mark]

\* The entries of the pushes a handler makes.
Pushes(h, es) == [j \in 1..Len(es) |-> Entry("push", j, h, es[j], None)]

\* result = _handler.handle(command), with FakeCommandHandler.handle
CommandHandle ==
    /\ pc = "c_handle"
    /\ IF RaisesFirst(handler)
       THEN /\ ex' = HandlerError
            /\ pc' = "c_error"
            /\ log' = Append(log, Entry("handle", 0, handler, "command", HandlerError))
            /\ UNCHANGED <<command, events, result, origin>>
       ELSE /\ command' = [command EXCEPT !.is_handled = TRUE]
            /\ events' = push_events(events, HandlerEvents(handler))
            /\ origin' = origin \o Origins(HandlerEvents(handler),
                               IF RaisesLast(handler) THEN "failed" ELSE "live")
            /\ IF RaisesLast(handler)
               THEN /\ ex' = HandlerError
                    /\ pc' = "c_error"
                    /\ log' = (log \o Pushes(handler, HandlerEvents(handler)))
                              \o <<Entry("handle", 0, handler, "command", HandlerError)>>
                    /\ UNCHANGED result
               ELSE /\ result' = command.data
                    /\ pc' = "c_after"
                    /\ log' = (log \o Pushes(handler, HandlerEvents(handler)))
                              \o <<Entry("handle", 0, handler, "command", command.data)>>
                    /\ UNCHANGED ex
    /\ UNCHANGED <<Registries, counter, op, handler, event, li, outcome,
                   calls, stale, counter0, emitted, ChainVars, external>>

\* Mutant of dispatch_return: the result is dropped.
dispatch_return_none(res) == None

\* What dispatch hands back to MessageBus.handle: return result
dispatch_return(res) == res

\* for _middleware in self._middlewares: _middleware.after(command);
\* return result.  The bus then drains the stream.
CommandAfter ==
    /\ pc = "c_after"
    /\ \E r \in 0..NumCommandMiddlewares :
        /\ log' = log \o Hooks("after", NumCommandMiddlewares, r, "command", None)
        /\ IF r = 0
           THEN pc' = "drain" /\ result' = dispatch_return(result)
                /\ UNCHANGED ex
           ELSE pc' = "c_error" /\ ex' = HookError("after")
                /\ UNCHANGED result
    /\ UNCHANGED <<Registries, events, counter, command, op, handler,
                   event, li, outcome, calls, stale, counter0, emitted,
                   origin, ChainVars, external>>

\* except Exception as ex: for _middleware in ...: _middleware.error(
\* command, ex); raise ex.  An exception raised by an error hook leaves
\* the loop before the raise statement is reached.
CommandError ==
    /\ pc = "c_error"
    /\ \E r \in 0..NumCommandMiddlewares :
        /\ log' = log \o Hooks("error", NumCommandMiddlewares, r, "command", ex)
        /\ outcome' = IF r = 0 THEN Raised(ex) ELSE Raised(HookError("error"))
    /\ pc' = "done"
    /\ UNCHANGED <<Registries, events, counter, command, op, handler, result,
                   ex, event, li, calls, stale, counter0, emitted,
                   origin, ChainVars, external>>

\* ---------------------------------------------------------- drain loop
\* MessageBus.emit(event): push the event onto the shared stream, drain.
Emit ==
    /\ pc \in {"idle", "done"} /\ calls < MaxCalls
    /\ \E e \in Events :
        /\ events' = push_event(events, e)
        /\ origin' = Append(origin, "live")
        /\ emitted' = e
    /\ op' = "emit" /\ pc' = "drain" /\ calls' = calls + 1
    /\ log' = <<>> /\ outcome' = NoOutcome /\ stale' = events /\ counter0' = counter
    /\ command' = NoCommand /\ handler' = None /\ result' = None
    /\ ex' = None /\ event' = None /\ li' = 0
    /\ UNCHANGED <<Registries, counter, ChainVars, external>>

\* Mutant of listeners_for: every listener of every type is handed over.
listeners_for_all(map, e) == map["EvA"] \o map["EvB"]

\* The list the bus hands to the event dispatcher: the listeners
\* registered for the runtime type of the event.
listeners_for(map, e) == map[TypeOf(e)]

\* Mutant of listener_at: the list is walked from its end.
listener_at_reversed(ls, i) == ls[Len(ls) + 1 - i]

\* Mutant of listener_at: every round of the loop takes the first listener.
listener_at_first(ls, i) == ls[1]

\* for listener in event_listeners: the i-th listener of the loop.
listener_at(ls, i) == ls[i]

\* The dispatch loop is over when the list has no listener at index i.
LoopEnd(e, i) == i > Len(listeners_for(event_listeners, e))

\* One step of the drain loop: next(stream); at StopIteration the call
\* returns, otherwise the event goes to the listeners of its type.
DrainNext ==
    /\ pc = "drain"
    /\ IF StopIteration(events)
       THEN /\ outcome' = Returned(IF op = "handle" THEN result ELSE None)
            /\ pc' = "done"
            /\ UNCHANGED <<events, event, li, log, origin>>
       ELSE /\ event' = next_event(events)
            /\ events' = next_rest(events)
            /\ origin' = Tail(origin)
            /\ li' = 1
            /\ log' = Append(log, Entry("next", 0, None, next_event(events),
                                        Head(origin)))
            /\ pc' = IF LoopEnd(next_event(events), 1) THEN "drain" ELSE "e_before"
            /\ UNCHANGED outcome
    /\ UNCHANGED <<Registries, counter, command, op, handler, result, ex,
                   calls, stale, counter0, emitted, ChainVars, external>>

\* ---------------------------------------------------- event dispatcher
\* for _middleware in self._middlewares: _middleware.before(event).  When
\* a before hook raises, listener.handle is not reached (a "skip" entry).
EventBefore ==
    /\ pc = "e_before"
    /\ \E r \in 0..NumEventMiddlewares :
        IF r = 0
        THEN pc' = "e_handle" /\ UNCHANGED <<ex, log>>
        ELSE /\ pc' = "e_error" /\ ex' = HookError("before")
             /\ log' = Append(log, Entry("skip", li,
                            listener_at(listeners_for(event_listeners, event), li),
                            event, HookError("before")))
    /\ UNCHANGED <<Registries, events, counter, command, op, handler, result,
                   event, li, outcome, calls, stale, counter0, emitted,
                   origin, ChainVars, external>>

\* The events FakeEventHandler.handle pushes: those not yet handled.
Unhandled(cnt, es) == SelectSeq(es, LAMBDA e : ~is_handled(cnt, e))

\* listener.handle(event), with FakeEventHandler.handle
EventHandle ==
    /\ pc = "e_handle"
    /\ LET l == listener_at(listeners_for(event_listeners, event), li)
           cnt == [counter EXCEPT ![event] = @ + 1]
           es == Unhandled(cnt, ListenerEvents(l))
       IN IF RaisesFirst(l)
          THEN /\ ex' = ListenerError
               /\ pc' = "e_error"
               /\ log' = Append(log, Entry("listen", li, l, event, ListenerError))
               /\ UNCHANGED <<counter, events, origin>>
          ELSE /\ counter' = cnt
               /\ events' = push_events(events, es)
               /\ origin' = origin \o Origins(es, "live")
               /\ log' = (log \o Pushes(l, es))
                         \o <<Entry("listen", li, l, event, None)>>
               /\ pc' = "e_after"
               /\ UNCHANGED ex
    /\ UNCHANGED <<Registries, command, op, handler, result, event, li,
                   outcome, calls, stale, counter0, emitted,
                   ChainVars, external>>

\* for _middleware in self._middlewares: _middleware.after(event); then
\* the loop goes on with the next listener.
EventAfter ==
    /\ pc = "e_after"
    /\ \E r \in 0..NumEventMiddlewares :
        IF r = 0
        THEN /\ li' = li + 1
             /\ pc' = IF LoopEnd(event, li + 1) THEN "drain" ELSE "e_before"
             /\ UNCHANGED ex
        ELSE /\ pc' = "e_error" /\ ex' = HookError("after")
             /\ UNCHANGED li
    /\ UNCHANGED <<Registries, events, counter, command, op, handler, result,
                   event, outcome, log, calls, stale, counter0, emitted,
                   origin, ChainVars, external>>

\* except Exception as ex: for _middleware in ...: _middleware.error(
\* event, ex).  The exception is dropped (ex is local to the except
\* clause) and the loop goes on with the next listener; an
\* exception raised by an error hook leaves dispatch, the drain loop and
\* the top-level call.
EventError ==
    /\ pc = "e_error"
    /\ \E r \in 0..NumEventMiddlewares :
        IF r = 0
        THEN /\ li' = li + 1
             /\ pc' = IF LoopEnd(event, li + 1) THEN "drain" ELSE "e_before"
             /\ ex' = None
             /\ UNCHANGED outcome
        ELSE /\ outcome' = Raised(HookError("error"))
             /\ pc' = "done"
             /\ UNCHANGED <<li, ex>>
    /\ UNCHANGED <<Registries, events, counter, command, op, handler, result,
                   event, log, calls, stale, counter0, emitted,
                   origin, ChainVars, external>>

Next ==
    \/ RegisterCommandHandler
    \/ RegisterEventHandler
    \/ Handle
    \/ CommandLookup
    \/ CommandBefore
    \/ CommandHandle
    \/ CommandAfter
    \/ CommandError
    \/ Emit
    \/ DrainNext
    \/ EventBefore
    \/ EventHandle
    \/ EventAfter
    \/ EventError

Spec == Init /\ [][Next]_vars

\* A step of the running call.  The bus is single threaded and synchronous:
\* once handle or emit is called, the interpreter runs the call's next
\* statement until the call returns or raises.
Running ==
    \/ CommandLookup
    \/ CommandBefore
    \/ CommandHandle
    \/ CommandAfter
    \/ CommandError
    \/ DrainNext
    \/ EventBefore
    \/ EventHandle
    \/ EventAfter
    \/ EventError

FairSpec == Spec /\ WF_vars(Running)

\* ------------------------------------------ the registration decorator
\* The classes handed to the decorator: the classes of the command
\* handlers and of the listeners above, and a class that is neither.
Classes == CommandHandlers \cup Listeners \cup {"Other"}
ConfigurationError == "ConfigurationError"

\* Mutant of capability: what is not an event handler is taken for a
\* command handler.
capability_unchecked(cls) == IF cls \in Listeners THEN "event" ELSE "command"

\* isinstance(instance, CommandHandler) / isinstance(instance, EventHandler)
capability(cls) ==
    CASE cls \in CommandHandlers -> "command"
      [] cls \in Listeners -> "event"
      [] OTHER -> "neither"

\* The message types a class is registered for: command types for a
\* command handler, event types for an event handler.
TypesFor(cls) ==
    CASE cls \in CommandHandlers -> CommandTypes
      [] cls \in Listeners -> EventTypes
      [] OTHER -> CommandTypes \cup EventTypes

\* The number of decorations made so far.
Decorations == IF log = <<>> THEN 0 ELSE log[1].i

\* register_handler(T)(cls): construct one instance of cls, classify it and
\* register it; the decorator hands the class back.  log holds the latest
\* decoration, numbered.
RegisterHandler ==
    /\ pc = "idle" /\ calls = 0
    /\ Decorations < MaxRegistrations
    /\ \E cls \in Classes : \E T \in TypesFor(cls) :
        /\ log' = <<Entry("construct", Decorations + 1, cls, T, None)>>
        /\ CASE capability(cls) = "command" /\ T \in CommandTypes ->
                 /\ command_handlers' = add_handler(command_handlers, T, cls)
                 /\ last_registered' = [last_registered EXCEPT ![T] = cls]
                 /\ overwritten' =
                        (overwritten \/ last_registered[T] \notin {None, cls})
                 /\ outcome' = Returned(cls)
                 /\ UNCHANGED <<event_listeners, registered>>
             [] capability(cls) = "event" /\ T \in EventTypes ->
                 /\ SumLen(registered, EventTypes) < MaxListeners
                 /\ event_listeners' = add_listener(event_listeners, T, cls)
                 /\ registered' = [registered EXCEPT ![T] = Append(@, cls)]
                 /\ outcome' = Returned(cls)
                 /\ UNCHANGED <<command_handlers, last_registered, overwritten>>
             [] OTHER ->
                 /\ outcome' = Raised(ConfigurationError)
                 /\ UNCHANGED Registries
    /\ UNCHANGED <<events, counter, command, pc, op, handler, result, ex,
                   event, li, calls, stale, counter0, emitted, origin,
                   ChainVars, external>>

RegNext ==
    \/ RegisterCommandHandler
    \/ RegisterEventHandler
    \/ RegisterHandler

RegSpec == Init /\ [][RegNext]_vars

\* ------------------------------------------------------ handler chains
\* Nodes of class Handler with the default handle and error, chained and
\* called by the code that owns them.  log holds the calls made so far,
\* each followed by the invocations it caused on other nodes: an entry of
\* kind "handle" or "error" for node h at nesting level i.
RecursionError == "RecursionError"
Msg == "msg"

\* Mutant of chain_next: the successor is set on the node passed in.
chain_next_swapped(nx, x, y) == [nx EXCEPT ![y] = x]

\* Handler.chain: self._next = handler
chain_next(nx, x, y) == [nx EXCEPT ![x] = y]

\* Handler.chain: handler._prev = self
chain_prev(pv, x, y) == [pv EXCEPT ![y] = x]

\* Handler.chain: return handler
chain_return(x, y) == y

\* Handler.next(msg, ex) on node n with d nested calls left: without a
\* successor nothing is invoked; with one, its error is invoked when err is
\* given, and then its handle is invoked (the return statement follows the
\* if statement).  The default error and handle of the successor call its
\* own next.  t is the invocations made, ok whether the call returned.
RECURSIVE next(_, _, _)
next(n, err, d) ==
    IF d = 0 THEN [t |-> <<>>, ok |-> FALSE]
    ELSE IF _next[n] = None THEN [t |-> <<>>, ok |-> TRUE]
    ELSE LET m == _next[n]
             lvl == MaxDepth - d + 1
             e == IF err # None
                  THEN LET r == next(m, err, d - 1)
                       IN [t |-> <<Entry("error", lvl, m, Msg, err)>> \o r.t,
                           ok |-> r.ok]
                  ELSE [t |-> <<>>, ok |-> TRUE]
         IN IF ~e.ok THEN e
            ELSE LET h == next(m, None, d - 1)
                 IN [t |-> (e.t \o <<Entry("handle", lvl, m, Msg, None)>>) \o h.t,
                     ok |-> h.ok]

ChainRest == <<Registries, events, counter, command, pc, op, handler, ex,
               event, li, stale, counter0, emitted, origin, external>>

\* x.chain(y)
Chain ==
    /\ calls < MaxChainOps
    /\ \E x \in Nodes, y \in Nodes :
        /\ _next' = chain_next(_next, x, y)
        /\ _prev' = chain_prev(_prev, x, y)
        /\ result' = chain_return(x, y)
        /\ log' = Append(log, Entry("chain", 0, x, y, chain_return(x, y)))
    /\ calls' = calls + 1
    /\ UNCHANGED <<outcome, ChainRest>>

\* The call n.what(msg, ex) with the invocations r it caused.
Called(n, what, x, r) ==
    /\ log' = Append(log, Entry("call", 0, n, what, x)) \o r.t
    /\ outcome' = IF r.ok THEN Returned(None) ELSE Raised(RecursionError)
    /\ calls' = calls + 1
    /\ UNCHANGED <<result, ChainVars, ChainRest>>

\* n.next(msg) and n.next(msg, ex)
CallNext ==
    /\ calls < MaxChainOps
    /\ \E n \in Nodes, x \in {None, HandlerError} :
        Called(n, "next", x, next(n, x, MaxDepth))

\* n.handle(msg), the default: return self.next(msg)
CallHandle ==
    /\ calls < MaxChainOps
    /\ \E n \in Nodes : Called(n, "handle", None, next(n, None, MaxDepth))

\* n.error(msg, ex), the default: self.next(msg, ex)
CallError ==
    /\ calls < MaxChainOps
    /\ \E n \in Nodes :
        Called(n, "error", HandlerError, next(n, HandlerError, MaxDepth))

ChainNext ==
    \/ Chain
    \/ CallNext
    \/ CallHandle
    \/ CallError

ChainSpec == Init /\ [][ChainNext]_vars

\* ------------------------------------------- the stream used on its own
\* An InMemoryEventStream driven directly, as in tests/unit/test_stream.py:
\* any interleaving of push_event calls and iteration steps.  events is the
\* stream's queue, log the calls made so far and outcome the result of the
\* latest step.
StopIterationError == "StopIteration"

StreamRest == <<Registries, counter, command, pc, op, handler, result, ex,
                event, li, calls, stale, counter0, emitted,
                origin, ChainVars, external>>

\* stream.push_event(e)
StreamPush ==
    /\ Len(log) < MaxStreamOps
    /\ \E e \in Events :
        /\ events' = push_event(events, e)
        /\ log' = Append(log, Entry("push", 0, None, e, None))
    /\ UNCHANGED <<outcome, StreamRest>>

\* next(stream): one iteration step.
StreamStep ==
    /\ Len(log) < MaxStreamOps
    /\ IF StopIteration(events)
       THEN /\ outcome' = Raised(StopIterationError)
            /\ log' = Append(log, Entry("stop", 0, None, None, StopIterationError))
            /\ UNCHANGED events
       ELSE /\ outcome' = Returned(next_event(events))
            /\ events' = next_rest(events)
            /\ log' = Append(log, Entry("next", 0, None, next_event(events), None))
    /\ UNCHANGED StreamRest

StreamNext ==
    \/ StreamPush
    \/ StreamStep

StreamSpec == Init /\ [][StreamNext]_vars

\* ---------------------------------- a stream with an external read source
\* An EventStream whose _read_events hands over, once, the events its
\* external source has on offer (external), driven by pushes, offers of
\* the source and iteration steps.
SourceRest == <<Registries, counter, command, pc, op, handler, result, ex,
                event, li, calls, stale, counter0, emitted, origin, ChainVars>>

\* The external source gets an event to offer.
SourceOffer ==
    /\ Len(log) < MaxStreamOps
    /\ \E e \in Events :
        /\ external' = Append(external, e)
        /\ log' = Append(log, Entry("offer", 0, None, e, None))
    /\ UNCHANGED <<events, outcome, SourceRest>>

\* EventStream.__next__: StopIteration on an empty queue; otherwise the
\* events _read_events returns are appended and the front is popped.
SourceStep ==
    /\ Len(log) < MaxStreamOps
    /\ IF StopIteration(events)
       THEN /\ outcome' = Raised(StopIterationError)
            /\ log' = Append(log, Entry("stop", 0, None, None, StopIterationError))
            /\ UNCHANGED <<events, external>>
       ELSE /\ outcome' = Returned(Head(events \o external))
            /\ events' = Tail(events \o external)
            /\ external' = <<>>
            /\ log' = Append(log, Entry("next", 0, None,
                                        Head(events \o external), None))
    /\ UNCHANGED SourceRest

SourceNext ==
    \/ StreamPush
    \/ SourceOffer
    \/ SourceStep

SourceSpec == Init /\ [][SourceNext]_vars

\* ------------------------------------------------------------- claims
LogIdx == 1..Len(log)
IsCall(j, k) == log[j].k = k
IsAttempt(j) == log[j].k \in {"listen", "skip"}
IsStep(j) == log[j].k \in {"next", "listen", "skip"}
\* The entries of handler.handle(command) in the running call.
HandleEntries == {j \in LogIdx : IsCall(j, "handle")}
\* The invocations of listener.handle(e) that returned.
Handled(e) == {j \in LogIdx : IsCall(j, "listen") /\ log[j].m = e /\ log[j].x = None}
\* The dispatches of event e in the running call.
Dispatches(e) == {j \in LogIdx : IsCall(j, "next") /\ log[j].m = e}
\* The last dispatch step before entry j.
PrevStep(j) == CHOOSE p \in 1..(j - 1) :
                  IsStep(p) /\ \A q \in (p + 1)..(j - 1) : ~IsStep(q)
HasPrevStep(j) == \E p \in 1..(j - 1) : IsStep(p)
\* The listener attempts of the dispatch that begins at entry j.
AttemptsOf(j) ==
    {a \in LogIdx : a > j /\ IsAttempt(a)
                    /\ \A q \in (j + 1)..a : ~IsCall(q, "next")}
HandleDone == pc = "done" /\ op = "handle"
EmitDone == pc = "done" /\ op = "emit"

\* C1: when bus.handle(C) returns, a handler is registered for C's type,
\* that handler's handle(C) ran exactly once, the value returned to the
\* caller is the value it returned (the command's data), and C carries
\* the handler's mutation; with a registered handler the call never fails
\* with HandlerNotFoundError.
C1_HandleReturnsHandlerResult ==
    /\ (HandleDone /\ outcome.kind = "returned") =>
        /\ command_handlers[command.type] # None
        /\ Cardinality(HandleEntries) = 1
        /\ \A j \in HandleEntries :
            /\ log[j].h = command_handlers[command.type]
            /\ log[j].x = outcome.val
        /\ outcome.val = command.data
        /\ command.is_handled
    /\ (HandleDone /\ command_handlers[command.type] # None) =>
        outcome # Raised(HandlerNotFoundError)

C1_Witness ==
    /\ HandleDone /\ outcome = Returned("test")
    /\ command.type = "CmdA" /\ command_handlers["CmdA"] = "hPlain"
    /\ command.is_handled

\* C2: bus.handle(C) for a command type without a handler raises
\* HandlerNotFoundError before anything else happens: no handler and no
\* hook runs, and C stays as the caller built it, whatever is registered
\* for the other command types.
C2_NoHandlerRaisesNotFound ==
    (op = "handle" /\ command_handlers[command.type] = None) =>
        /\ pc \in {"c_lookup", "done"}
        /\ pc = "done" => outcome = Raised(HandlerNotFoundError)
        /\ pc = "c_lookup" => outcome = NoOutcome
        /\ log = <<>>
        /\ command = FakeCommand(command.type, command.data)
        /\ events = stale /\ counter = counter0

C2_Witness ==
    /\ HandleDone /\ command.type = "CmdA"
    /\ command_handlers["CmdA"] = None /\ command_handlers["CmdB"] = "hPlain"
    /\ outcome = Raised(HandlerNotFoundError)
    /\ ~command.is_handled

\* C3 (as claimed): when the handler raised during bus.handle(C), the
\* exception the caller gets is the handler's, and C carries exactly what
\* the handler did before raising.
C3_HandlerErrorPropagates ==
    (HandleDone /\ \E j \in HandleEntries : log[j].x = HandlerError) =>
        /\ outcome = Raised(HandlerError)
        /\ command.is_handled = RaisesLast(handler)

C5_RaisingListenerPreventsNothing ==
    pc = "done" =>
        \A j \in LogIdx : (IsCall(j, "listen") /\ log[j].x = ListenerError) =>
            /\ events = <<>>
            /\ \A i \in (log[j].i + 1)..Len(event_listeners[TypeOf(log[j].m)]) :
                \E k \in LogIdx : /\ k > j /\ IsAttempt(k)
                                  /\ log[k].m = log[j].m /\ log[k].i = i

\* C6 (as claimed): emit(E) returns normally, whatever the listeners and
\* the middleware hooks do.
C6_EmitNeverRaises == EmitDone => outcome = Returned(None)

C8_LastRegisteredHandlerWins ==
    \A t \in CommandTypes : command_handlers[t] = last_registered[t]

C8_Witness ==
    /\ overwritten
    /\ command_handlers["CmdA"] = "hErr"
    /\ command_handlers["CmdB"] = None

\* C9: the listener list of every event type is the sequence of the
\* listeners registered for it, in registration order.
C9_ListenersAppendInOrder ==
    \A t \in EventTypes : event_listeners[t] = registered[t]

C9_Witness ==
    /\ event_listeners["EvA"] = <<"lErr", "lPlain">>
    /\ event_listeners["EvB"] = <<>>

\* A listener pushed event e while event d was being dispatched.
PushedDuring(e, d) ==
    \E j \in LogIdx :
        /\ IsCall(j, "push") /\ log[j].m = e /\ log[j].h \in Listeners
        /\ \E n \in Dispatches(d) :
            /\ n < j
            /\ \A q \in (n + 1)..j : ~IsCall(q, "next")

Count(q, x) == Cardinality({i \in 1..Len(q) : q[i] = x})
\* The pushes of event e made by handlers and listeners in the running call.
PushesOf(e) == {j \in LogIdx : IsCall(j, "push") /\ log[j].m = e}

CmdTrace == SelectSeq(log, LAMBDA en : en.m = "command")
NumMw == NumCommandMiddlewares
\* The dispatch of the running handle call returned: the drain is about to
\* start, or the call returned.
DispatchReturned ==
    op = "handle" /\ (pc = "drain" \/ (pc = "done" /\ outcome.kind = "returned"))
\* Entries from..(from + NumMw - 1) of the trace are hook k of middlewares
\* 1..NumMw, in that order, each receiving x.
HooksInOrder(t, from, k, x) ==
    /\ from >= 1 /\ Len(t) >= from + NumMw - 1
    /\ \A j \in 1..NumMw :
        /\ t[from + j - 1].k = k /\ t[from + j - 1].i = j
        /\ t[from + j - 1].x = x
\* The running handle call failed in the command dispatcher with x.
CmdFailedWith(x) ==
    HandleDone /\ \E j \in 1..Len(CmdTrace) :
        CmdTrace[j].k = "error" /\ CmdTrace[j].x = x

\* C21: a command dispatch that returned has invoked, in this order, the
\* before hook of every middleware in list order, the handle of the
\* registered handler once, the after hook of every middleware in list
\* order, and nothing else (no error hook); the result is the handler's.
C21_SuccessfulDispatchOrder ==
    DispatchReturned =>
        /\ Len(CmdTrace) = 2 * NumMw + 1
        /\ HooksInOrder(CmdTrace, 1, "before", None)
        /\ CmdTrace[NumMw + 1].k = "handle"
        /\ CmdTrace[NumMw + 1].h = command_handlers[command.type]
        /\ CmdTrace[NumMw + 1].x = result
        /\ HooksInOrder(CmdTrace, NumMw + 2, "after", None)
        /\ pc = "done" => outcome = Returned(CmdTrace[NumMw + 1].x)

C21_Witness ==
    /\ HandleDone /\ outcome = Returned("test") /\ handler = "hPush"
    /\ Len(CmdTrace) = 2 * NumMw + 1
    /\ CmdTrace[1].k = "before" /\ CmdTrace[Len(CmdTrace)].k = "after"

\* C22 (as claimed): when the handler's handle raised X, the error hook of
\* every middleware was invoked once, in list order, each with X, no after
\* hook was invoked, and the caller gets X.
C22_HandlerErrorRunsErrorHooks ==
    (HandleDone /\ \E j \in HandleEntries : log[j].x = HandlerError) =>
        /\ Len(CmdTrace) = 2 * NumMw + 1
        /\ CmdTrace[NumMw + 1].k = "handle"
        /\ HooksInOrder(CmdTrace, NumMw + 2, "error", HandlerError)
        /\ \A j \in 1..Len(CmdTrace) : CmdTrace[j].k # "after"
        /\ outcome = Raised(HandlerError)

\* C23: when no handler is registered for the command's type, the command
\* dispatcher invokes nothing, neither a handler nor a before, after or
\* error hook, and the call ends in HandlerNotFoundError; and a call that
\* ended in HandlerNotFoundError has invoked nothing.
C23_LookupFailureInvokesNothing ==
    /\ (op = "handle" /\ command_handlers[command.type] = None) =>
        /\ CmdTrace = <<>>
        /\ \A j \in LogIdx : log[j].k \notin {"before", "after", "error", "handle"}
        /\ handler = None
        /\ pc = "done" => outcome = Raised(HandlerNotFoundError)
    /\ (HandleDone /\ outcome = Raised(HandlerNotFoundError)) =>
        (CmdTrace = <<>> /\ command_handlers[command.type] = None)

C23_Witness ==
    /\ HandleDone /\ outcome = Raised(HandlerNotFoundError)
    /\ command.type = "CmdB" /\ command_handlers["CmdB"] = None
    /\ command_handlers["CmdA"] = "hErr"
    /\ CmdTrace = <<>>

\* C28 (as claimed): when a before hook raised, the handler's handle was
\* not invoked, the error hook of every middleware was invoked in list
\* order with that exception, and the caller gets it; when an after hook
\* raised, the handler had returned and the caller gets the hook's
\* exception.
C28_HookErrorPropagates ==
    /\ CmdFailedWith(HookError("before")) =>
        /\ HandleEntries = {}
        /\ HooksInOrder(CmdTrace, Len(CmdTrace) - NumMw + 1, "error",
                        HookError("before"))
        /\ outcome = Raised(HookError("before"))
    /\ CmdFailedWith(HookError("after")) =>
        /\ \E j \in HandleEntries : log[j].x # HandlerError
        /\ outcome = Raised(HookError("after"))

\* ---------------------------------------------- claims on the drain
\* The events pending when the drain of the running call starts: the ones
\* left by earlier calls, then the emitted event or the command handler's
\* pushes.
HandlerPushes ==
    SelectSeq(log, LAMBDA en : en.k = "push" /\ en.h \in CommandHandlers)
DrainStart ==
    IF op = "emit" THEN Append(stale, emitted)
    ELSE stale \o [j \in 1..Len(HandlerPushes) |-> HandlerPushes[j].m]
\* The rank of the dispatch at entry j among the dispatches of the call.
Rank(j) == Cardinality({i \in 1..j : IsCall(i, "next")})
ListenerPush(i) == IsCall(i, "push") /\ log[i].h \in Listeners

InvocationsOf(j, i) ==
    {a \in AttemptsOf(j) : IsCall(a, "listen") /\ log[a].i = i}
AttemptsFor(j, i) == {a \in AttemptsOf(j) : log[a].i = i}
\* The dispatch that begins at entry j ran to its end.
DispatchEnded(j) ==
    \/ \E q \in (j + 1)..Len(log) : IsCall(q, "next")
    \/ pc = "done" /\ outcome.kind = "returned"
ListenersOf(j) == event_listeners[TypeOf(log[j].m)]

EveryCallEnds == (pc \notin {"idle", "done"}) ~> (pc = "done")

\* C27 (as claimed): with guarded listeners every emit or handle call ends
\* with the stream empty.
C27_CallsEndWithStreamEmpty == pc = "done" => events = <<>>

\* What keeps a call from ending with the stream empty: the call raised,
\* out of an error hook or out of the command dispatch.
CallsEndEmptyUnlessRaised ==
    (pc = "done" /\ events # <<>>) =>
        \/ outcome = Raised(HookError("error"))
        \/ op = "handle" /\ outcome.kind = "raised"

\* ------------------------------------------------ claims on the stream
\* The events of the entries of kind k among the first n entries, in order.
RECURSIVE Trace(_, _)
Trace(k, n) ==
    IF n = 0 THEN <<>>
    ELSE IF log[n].k = k THEN Append(Trace(k, n - 1), log[n].m)
         ELSE Trace(k, n - 1)
\* The number of pushes / returns of event e among the first n entries.
NumOf(k, e, n) == Cardinality({j \in 1..n : log[j].k = k /\ log[j].m = e})
\* Entry j is an iteration step.
IsIterStep(j) == log[j].k \in {"next", "stop"}
\* Every event pushed before entry j was returned before entry j.
AllReturnedBefore(j) == Len(Trace("push", j - 1)) = Len(Trace("next", j - 1))
\* Push j is made while the stream is iterated: the latest step before it
\* returned an event, whose handling is running.
DuringIteration(j) ==
    /\ IsCall(j, "push")
    /\ \E p \in 1..(j - 1) :
        /\ IsCall(p, "next")
        /\ \A q \in (p + 1)..(j - 1) : ~IsIterStep(q)

\* C13: the stream is FIFO: for any interleaving of pushes and steps the
\* events returned so far, in the order returned, followed by the pending
\* queue, front first, are the events pushed so far in the order pushed.
C13_StreamIsFifo ==
    Trace("next", Len(log)) \o events = Trace("push", Len(log))

C13_Witness ==
    /\ Trace("push", Len(log)) = <<"e1", "e2", "e3">>
    /\ Trace("next", Len(log)) = <<"e1", "e2">>
    /\ log[2].k = "next" /\ events = <<"e3">>

\* C14: a step signals StopIteration, returning no event and leaving the
\* queue alone, exactly when every event pushed so far has been returned;
\* it does so at every further step until a fresh push, and the step after
\* a fresh push returns the event of that push.
C14_IterationIsExhausting ==
    /\ \A j \in LogIdx : IsIterStep(j) =>
        (AllReturnedBefore(j) <=> (IsCall(j, "stop") /\ log[j].m = None))
    /\ \A j \in LogIdx :
        (IsCall(j, "push") /\ AllReturnedBefore(j) /\ j < Len(log)
         /\ IsIterStep(j + 1)) =>
            (IsCall(j + 1, "next") /\ log[j + 1].m = log[j].m)
    /\ (log # <<>> /\ IsCall(Len(log), "stop")) =>
        (outcome = Raised(StopIterationError) /\ events = <<>>)

C14_Witness ==
    /\ Len(log) = 6
    /\ log[1].k = "push" /\ log[2].k = "next" /\ log[3].k = "stop"
    /\ log[4].k = "stop" /\ log[5].k = "push" /\ log[6].k = "next"
    /\ log[6].m = log[5].m /\ outcome = Returned(log[5].m)

\* C15: for every event, the number of times iteration returned it never
\* exceeds the number of times it was pushed, and the pending queue holds
\* it exactly once per push not yet returned.
C15_AtMostOncePerPush ==
    \A e \in Events :
        /\ NumOf("next", e, Len(log)) <= NumOf("push", e, Len(log))
        /\ Count(events, e) =
            NumOf("push", e, Len(log)) - NumOf("next", e, Len(log))

C15_Witness ==
    /\ NumOf("push", "e1", Len(log)) = 2 /\ NumOf("next", "e1", Len(log)) = 2
    /\ NumOf("push", "e2", Len(log)) = 1 /\ NumOf("next", "e2", Len(log)) = 0
    /\ events = <<"e2">>

\* C16: an event pushed while the stream is iterated is returned by a
\* later step of the same iteration: whenever a step signals StopIteration,
\* a step between the push and that signal returned the event, and no
\* StopIteration was signalled in between.
C16_PushDuringIterationIsReturned ==
    \A j \in LogIdx : DuringIteration(j) =>
        \A s \in LogIdx : (s > j /\ IsCall(s, "stop")) =>
            \E k \in (j + 1)..(s - 1) :
                /\ IsCall(k, "next") /\ log[k].m = log[j].m
                /\ \A q \in (j + 1)..k : ~IsCall(q, "stop")

C16_Witness ==
    /\ Len(log) = 5
    /\ log[1].k = "push" /\ log[1].m = "e1"
    /\ log[2].k = "next" /\ log[2].m = "e1"
    /\ log[3].k = "push" /\ log[3].m = "e3" /\ DuringIteration(3)
    /\ log[4].k = "next" /\ log[4].m = "e3"
    /\ log[5].k = "stop"

\* C24 (as claimed): every iteration step first pulls what the external
\* source has on offer: after a step nothing is left on offer, so a step
\* signals StopIteration only when nothing was pending and nothing was on
\* offer, and an event offered to an empty queue is returned.
C24_StepPullsExternalFirst ==
    (log # <<>> /\ IsIterStep(Len(log))) => external = <<>>

\* ------------------------------------------- claims on the decorator
\* The step is a register_handler decoration; Decorated is its entry.
IsDecoration ==
    /\ log' # <<>> /\ log'[1].k = "construct"
    /\ log'[1].i = Decorations + 1
Decorated == log'[1]

IsOp(j) == log[j].k \in {"chain", "call"}
HasOp == \E j \in LogIdx : IsOp(j)
\* The latest call and the invocations it caused directly (level 1).
LastOp == CHOOSE j \in LogIdx : IsOp(j) /\ \A q \in (j + 1)..Len(log) : ~IsOp(q)
Direct == {j \in (LastOp + 1)..Len(log) : log[j].i = 1}
LastCallIs(what) == HasOp /\ log[LastOp].k = "call" /\ log[LastOp].m = what
\* The invocations caused by the call at entry j: the entries up to the
\* next call made from outside.
TraceOf(j) ==
    LET last == CHOOSE k \in j..Len(log) :
                    /\ \A q \in (j + 1)..k : ~IsOp(q)
                    /\ (k < Len(log) => IsOp(k + 1))
    IN SubSeq(log, j + 1, last)

\* C19 (as claimed): n.next(msg, err) on a node with a successor invokes
\* exactly one operation of the successor, its error when err is given and
\* its handle when err is absent; on a node without a successor it invokes
\* nothing and returns None.
C19_NextInvokesExactlyOne ==
    LastCallIs("next") =>
        LET n == log[LastOp].h
            err == log[LastOp].x
        IN IF _next[n] = None
           THEN Len(log) = LastOp /\ outcome = Returned(None)
           ELSE /\ Cardinality(Direct) = 1
                /\ \A j \in Direct :
                    /\ log[j].h = _next[n]
                    /\ log[j].k = (IF err # None THEN "error" ELSE "handle")

\* The fluent call a.chain(b).chain(c) on fresh nodes: the second chain is
\* called on what the first returned.
FluentChain ==
    /\ Len(log) >= 2
    /\ log[1] = Entry("chain", 0, "a", "b", "b")
    /\ log[2].k = "chain" /\ log[2].h = log[1].x /\ log[2].m = "c"

\* C20: after x.chain(y), y is x's successor, x is y's predecessor and y
\* was returned; a.chain(b).chain(c) on fresh nodes builds a -> b -> c; and
\* the default handle called on a then invokes handle on b and, from
\* there, handle on c, in that order and nothing else, and returns None.
C20_ChainBuildsAndForwards ==
    /\ (HasOp /\ log[LastOp].k = "chain") =>
        /\ _next[log[LastOp].h] = log[LastOp].m
        /\ _prev[log[LastOp].m] = log[LastOp].h
        /\ result = log[LastOp].m /\ log[LastOp].x = log[LastOp].m
    /\ (FluentChain /\ Len(log) = 2) =>
        /\ _next = [n \in Nodes |-> CASE n = "a" -> "b" [] n = "b" -> "c"
                                        [] OTHER -> None]
        /\ _prev = [n \in Nodes |-> CASE n = "b" -> "a" [] n = "c" -> "b"
                                        [] OTHER -> None]
    /\ (FluentChain /\ Len(log) > 2 /\ log[3] = Entry("call", 0, "a", "handle", None)) =>
        /\ TraceOf(3) = <<Entry("handle", 1, "b", Msg, None),
                          Entry("handle", 2, "c", Msg, None)>>
        /\ LastOp = 3 => outcome = Returned(None)

C20_Witness ==
    /\ FluentChain
    /\ Len(log) = 5 /\ log[3] = Entry("call", 0, "a", "handle", None)
    /\ log[4].h = "b" /\ log[5].h = "c"
    /\ outcome = Returned(None)

\* C29 (as claimed): after any sequence of chain calls the links agree:
\* n's successor is m exactly when m's predecessor is n.
C29_LinksMutuallyConsistent ==
    \A n \in Nodes, m \in Nodes : (_next[n] = m) <=> (_prev[m] = n)
====
